---- MODULE Spec2Model ----
(***************************************************************************)
(* MapleSEA updates watcher (maplesea_updates_watcher.py).                 *)
(*                                                                         *)
(* One run of main(): load the webhook configuration, open the SQLite      *)
(* store, snapshot the known URLs, fetch the listing, notify and insert    *)
(* the new links, then notify and record title changes.                    *)
(*                                                                         *)
(* Text is modelled as a sequence of tokens, so that "" is <<>> and        *)
(* concatenation is \o.  A nullable value (SQL NULL, Python None, a        *)
(* missing dict key) is Null == <<>> or Some(x) == <<x>>.                  *)
(***************************************************************************)
EXTENDS Integers, Sequences, FiniteSets, TLC

VARIABLES
    schema,   \* state of the seen_links table: "none", "old" or "current"
    store,    \* seen_links: url -> row
    clock,    \* datetime.now(timezone.utc)
    runs,     \* number of runs started so far
    run       \* the run of main() in progress (or the last one)

vars == <<schema, store, clock, runs, run>>

(***************************************************************************)
(* Bounds of the model.                                                    *)
(***************************************************************************)
MaxRuns == 2

Null == <<>>
Some(x) == <<x>>

\* Python truthiness of an optional string: None and "" are falsy.
Truthy(opt) == opt # Null /\ opt[1] # <<>>

URLs == {<<"u1">>, <<"u2">>}
Titles == {<<>>, <<"A">>, <<"B">>}

NL == <<"\n">>
NEW_TAG == <<"NEW: **">>
UPDATED_TAG == <<"UPDATED (title changed): **">>
CLOSE_TAG == <<"**">>

NewMessage(title) == NEW_TAG \o title \o CLOSE_TAG
UpdatedMessage(title) == UPDATED_TAG \o title \o CLOSE_TAG

(***************************************************************************)
(* Configuration: entries of DISCORD_WEBHOOK_URLS as send_discord sees     *)
(* them.  A dict entry may lack either key; a str entry is a bare          *)
(* endpoint; anything else is skipped.                                     *)
(***************************************************************************)
H1 == <<"h1">>
H2 == <<"h2">>
AT == <<"@everyone ">>

DictEntry(u, p) == [kind |-> "dict", url |-> u, prefix |-> p]
StrEntry(s) == [kind |-> "str", url |-> Some(s), prefix |-> Null]
OtherEntry == [kind |-> "other", url |-> Null, prefix |-> Null]

HookLists ==
    { <<>>,
      <<StrEntry(H2), DictEntry(Some(H1), Some(AT))>>,
      <<DictEntry(Null, Some(AT)), DictEntry(Some(H1), Some(AT)), OtherEntry,
        DictEntry(Some(<<>>), Some(AT)), DictEntry(Some(H2), Null)>> }

\* config.json: missing, unreadable (I/O error or invalid JSON), valid JSON
\* that is not an object, or an object (with or without the key).
ConfigFiles ==
    { [kind |-> "absent", hooks |-> Null],
      [kind |-> "unreadable", hooks |-> Null],
      [kind |-> "nonobject", hooks |-> Null],
      [kind |-> "object", hooks |-> Null] }
    \cup { [kind |-> "object", hooks |-> Some(l)] : l \in HookLists }

\* Environment fallbacks: DISCORD_WEBHOOK_URL and DISCORD_WEBHOOK_URLS_CSV,
\* the latter already split at the commas, each field stripped.
EnvSingles == {Null, Some(H1)}
EnvCsvs == {Null, Some(<<<<>>, H1>>)}

RECURSIVE CsvHooks(_)
CsvHooks(fields) ==
    IF fields = <<>> THEN <<>>
    ELSE (IF Head(fields) # <<>>
            THEN <<DictEntry(Some(Head(fields)), Some(<<>>))>>
            ELSE <<>>) \o CsvHooks(Tail(fields))

\* load_config: [raised |-> an uncaught exception, webhooks |-> the list]
load_config(file, single, csv) ==
    IF file.kind = "nonobject"
    THEN [raised |-> TRUE, webhooks |-> <<>>]
    ELSE
      LET fromFile == IF file.kind = "object" /\ file.hooks # Null
                        THEN file.hooks[1] ELSE <<>>
          w1 == IF fromFile = <<>> /\ Truthy(single)
                  THEN <<DictEntry(single, Some(<<>>))>> ELSE fromFile
          w2 == IF w1 = <<>> /\ Truthy(csv)
                  THEN CsvHooks(csv[1]) ELSE w1
      IN [raised |-> FALSE, webhooks |-> w2]

\* datetime.now(timezone.utc): each reading is later than the one before
\* (the stamps carry microseconds and a commit or a POST lies between two
\* readings).
Now == clock + 1

(***************************************************************************)
(* DB helpers.                                                             *)
(***************************************************************************)
Row(fs, t, ch) == [first_seen_utc |-> fs, last_title |-> t, last_changed_utc |-> ch]
OldRow(fs) == [first_seen_utc |-> fs]

\* A row as read through the current schema: the columns an old table
\* lacks read as NULL once added.
Upgraded(r) ==
    IF "last_title" \in DOMAIN r THEN r
    ELSE Row(r.first_seen_utc, Null, Null)

Rows(s) == [u \in DOMAIN s |-> Upgraded(s[u])]

\* A variant of init_db that drops the table and creates it anew.
init_db_recreate(s) == [u \in {} |-> Row(0, Null, Null)]

\* init_db: CREATE TABLE IF NOT EXISTS, then ADD COLUMN (errors swallowed).
init_db(s) == Rows(s)

\* A variant of get_seen that finds no URL.
get_seen_nothing(s) == {}

get_seen(s) == DOMAIN s

get_row(s, url) ==
    IF url \in DOMAIN s THEN Some([url |-> url, last_title |-> s[url].last_title])
    ELSE Null

\* A variant of set_title that bumps the change timestamp and leaves the
\* title as it was.
set_title_stamp_only(s, url, title, now) ==
    [u \in DOMAIN s |->
        IF u = url THEN Row(s[u].first_seen_utc, s[u].last_title, Some(now))
        ELSE s[u]]

\* A variant of set_title that rewrites the whole row (INSERT OR REPLACE).
set_title_replace(s, url, title, now) ==
    [u \in DOMAIN s |->
        IF u = url THEN Row(now, Some(title), Some(now))
        ELSE s[u]]

\* A variant of set_title whose UPDATE has no WHERE clause.
set_title_every_row(s, url, title, now) ==
    [u \in DOMAIN s |-> Row(s[u].first_seen_utc, Some(title), Some(now))]

set_title(s, url, title, now) ==
    [u \in DOMAIN s |->
        IF u = url THEN Row(s[u].first_seen_utc, Some(title), Some(now))
        ELSE s[u]]

\* The first item of the list that carries the URL.
FirstWith(items, u) ==
    items[CHOOSE k \in 1..Len(items) :
            /\ items[k].url = u
            /\ \A j \in 1..(k - 1) : items[j].url # u]

\* A variant of mark_seen that reads the clock for every row.
mark_seen_stamp_each(s, items, now) ==
    [u \in DOMAIN s \cup {items[k].url : k \in 1..Len(items)} |->
        IF u \in DOMAIN s THEN s[u]
        ELSE Row(now + Cardinality({k \in 1..Len(items) : items[k].url = u
                                      /\ k > 1}),
                 Some(FirstWith(items, u).title), Null)]

\* A variant of mark_seen that inserts the URL and the time only, as the
\* earlier schema did.
mark_seen_no_title(s, items, now) ==
    [u \in DOMAIN s \cup {items[k].url : k \in 1..Len(items)} |->
        IF u \in DOMAIN s THEN s[u]
        ELSE Row(now, Null, Null)]

\* A variant of mark_seen that overwrites the row of a URL that has one
\* (INSERT OR REPLACE).
mark_seen_replace(s, items, now) ==
    [u \in DOMAIN s \cup {items[k].url : k \in 1..Len(items)} |->
        IF u \in {items[k].url : k \in 1..Len(items)}
        THEN Row(now, Some(FirstWith(items, u).title), Null)
        ELSE s[u]]

\* mark_seen: executemany INSERT OR IGNORE, one timestamp for the batch.  A
\* URL that has a row keeps it; of two items with one URL the first wins.
mark_seen(s, items, now) ==
    [u \in DOMAIN s \cup {items[k].url : k \in 1..Len(items)} |->
        IF u \in DOMAIN s THEN s[u]
        ELSE Row(now, Some(FirstWith(items, u).title), Null)]

(***************************************************************************)
(* Notifier.                                                               *)
(***************************************************************************)
\* A variant of send_to_webhook that drops the line break before the URL.
send_to_webhook_no_newline(webhook_url, message, url, fails) ==
    [endpoint |-> webhook_url, content |-> message \o url, ok |-> ~fails]

\* send_to_webhook: one POST, its failure caught and logged.
send_to_webhook(webhook_url, message, url, fails) ==
    [endpoint |-> webhook_url, content |-> message \o NL \o url, ok |-> ~fails]

\* send_discord: the deliveries attempted, in order; `failing` is the set of
\* list positions whose POST fails.
RECURSIVE SendEach(_, _, _, _, _)
SendEach(webhooks, k, message, url, failing) ==
    IF k > Len(webhooks) THEN <<>>
    ELSE LET w == webhooks[k]
             here ==
               IF w.kind = "dict"
               THEN IF Truthy(w.url)
                    THEN <<send_to_webhook(w.url[1],
                             (IF w.prefix = Null THEN <<>> ELSE w.prefix[1]) \o message,
                             url, k \in failing)>>
                    ELSE <<>>
               ELSE IF w.kind = "str"
               THEN <<send_to_webhook(w.url[1], message, url, k \in failing)>>
               ELSE <<>>
         IN here \o SendEach(webhooks, k + 1, message, url, failing)

\* A variant of send_discord in which a failed POST propagates out of the
\* loop: nothing is attempted after the first failure.
send_discord_stops(webhooks, message, url, failing) ==
    IF webhooks = <<>>
    THEN [printed |-> Some(message \o NL \o url), deliveries |-> <<>>]
    ELSE LET all == SendEach(webhooks, 1, message, url, failing)
             bad == {k \in 1..Len(all) : ~all[k].ok}
             stop == IF bad = {} THEN Len(all)
                     ELSE CHOOSE k \in bad : \A j \in bad : k <= j
         IN [printed |-> Null, deliveries |-> SubSeq(all, 1, stop)]

send_discord(webhooks, message, url, failing) ==
    IF webhooks = <<>>
    THEN [printed |-> Some(message \o NL \o url), deliveries |-> <<>>]
    ELSE [printed |-> Null,
          deliveries |-> SendEach(webhooks, 1, message, url, failing)]

(***************************************************************************)
(* The listing: what fetch_links returns, a list without repeated URLs.    *)
(***************************************************************************)
Item(u, t) == [url |-> u, title |-> t]

FetchResults ==
    { <<>> }
    \cup { <<Item(u, t)>> : u \in URLs, t \in Titles }
    \cup { <<Item(u, t), Item(v, s)>> :
             <<u, v>> \in {p \in URLs \X URLs : p[1] # p[2]},
             <<t, s>> \in Titles \X Titles }

(***************************************************************************)
(* Initial states.                                                         *)
(***************************************************************************)
InitRows ==
    { Row(0, Null, Null) }
    \cup { Row(0, Some(t), Null) : t \in {<<>>, <<"A">>} }

InitStores ==
    { <<"none", <<>> >> }
    \cup { <<"old", s>> : s \in UNION { [S -> {OldRow(0)}] : S \in SUBSET URLs } }
    \cup { <<"current", s>> : s \in UNION { [S -> InitRows] : S \in SUBSET URLs } }

\* run.news counts, over all runs so far, the "new" notification events of
\* each URL.
IdleRun ==
    [ pc |-> "idle", webhooks |-> <<>>,
      previously_seen |-> {}, store0 |-> <<>>, start |-> 0,
      fetched |-> FALSE, same |-> FALSE,
      items |-> <<>>, new_items |-> <<>>, n |-> 1, i |-> 1,
      updated_count |-> 0, ret |-> 0,
      events |-> <<>>, last |-> Null,
      failed |-> FALSE, summary |-> Null,
      news |-> [u \in URLs |-> 0] ]

Init ==
    /\ \E st \in InitStores : schema = st[1] /\ store = st[2]
    /\ clock = 0
    /\ runs = 0
    /\ run = IdleRun

(***************************************************************************)
(* main()                                                                  *)
(***************************************************************************)
AfterNew(items) ==
    IF items = <<>> THEN "summary" ELSE "titles"

\* Lines 161-165: load_config, init_db, get_seen.
Start ==
    /\ run.pc \in {"idle", "done", "crashed", "killed"}
    /\ runs < MaxRuns
    /\ runs' = runs + 1
    /\ UNCHANGED clock
    /\ \E file \in ConfigFiles, single \in EnvSingles, csv \in EnvCsvs :
         LET cfg == load_config(file, single, csv)
             base == [IdleRun EXCEPT !.store0 = store,
                                     !.start = clock,
                                     !.items = run.items,
                                     !.news = run.news,
                                     !.same = run.pc = "done" /\ run.fetched]
         IN IF cfg.raised
            THEN /\ run' = [base EXCEPT !.pc = "crashed", !.ret = 1]
                 /\ UNCHANGED <<schema, store>>
            ELSE /\ schema' = "current"
                 /\ store' = init_db(store)
                 /\ run' = [base EXCEPT !.pc = "fetch",
                                        !.webhooks = cfg.webhooks,
                                        !.previously_seen = get_seen(store')]

\* Lines 167-171: fetch_links raises.
FetchFails ==
    /\ run.pc = "fetch"
    /\ run' = [run EXCEPT !.pc = "done", !.ret = 1, !.same = FALSE]
    /\ UNCHANGED <<schema, store, clock, runs>>

\* A variant of Fetch that takes every fetched item for a new one.
Fetch_all_new ==
    /\ run.pc = "fetch"
    /\ \E items \in FetchResults :
         run' = [run EXCEPT !.fetched = TRUE,
                            !.same = run.same /\ items = run.items,
                            !.items = items,
                            !.new_items = items,
                            !.pc = IF items # <<>> THEN "notify_new"
                                   ELSE AfterNew(items)]
    /\ UNCHANGED <<schema, store, clock, runs>>

\* Lines 167-175: fetch_links returns; the new items are picked out.
Fetch ==
    /\ run.pc = "fetch"
    /\ \E items \in FetchResults :
         LET IsNew(it) == it.url \notin run.previously_seen
             new_items == SelectSeq(items, IsNew)
         IN run' = [run EXCEPT !.fetched = TRUE,
                               !.same = run.same /\ items = run.items,
                               !.items = items,
                               !.new_items = new_items,
                               !.pc = IF new_items # <<>> THEN "notify_new"
                                      ELSE AfterNew(items)]
    /\ UNCHANGED <<schema, store, clock, runs>>

\* Lines 176-177: one "new" notification.
NotifyNew ==
    /\ run.pc = "notify_new"
    /\ \E failing \in SUBSET (1..Len(run.webhooks)) :
         LET it == run.new_items[run.n]
             message == NewMessage(it.title)
             sent == send_discord(run.webhooks, message, it.url, failing)
         IN run' = [run EXCEPT
                      !.events = Append(@, [message |-> message, url |-> it.url]),
                      !.last = Some(sent),
                      !.failed = @ \/ \E k \in 1..Len(sent.deliveries) :
                                        ~sent.deliveries[k].ok,
                      !.n = @ + 1,
                      !.news[it.url] = @ + 1,
                      !.pc = IF run.n = Len(run.new_items) THEN "mark_seen"
                             ELSE "notify_new"]
    /\ UNCHANGED <<schema, store, clock, runs>>

\* A variant of MarkSeen that inserts only when no delivery has failed.
MarkSeen_if_delivered ==
    /\ run.pc = "mark_seen"
    /\ clock' = Now
    /\ store' = IF run.failed THEN store
                ELSE mark_seen(store, run.new_items, Now)
    /\ run' = [run EXCEPT !.pc = "titles", !.last = Null]
    /\ UNCHANGED <<schema, runs>>

\* Line 178: the batched insert.
MarkSeen ==
    /\ run.pc = "mark_seen"
    /\ clock' = Now
    /\ store' = mark_seen(store, run.new_items, Now)
    /\ run' = [run EXCEPT !.pc = "titles", !.last = Null]
    /\ UNCHANGED <<schema, runs>>

AfterItem(r) == IF r.i = Len(r.items) THEN "summary" ELSE "titles"

\* Lines 182-193: one turn of the title loop, up to the write.
CheckTitle ==
    /\ run.pc = "titles"
    /\ LET it == run.items[run.i]
           row == get_row(store, it.url)
           skip == [run EXCEPT !.i = @ + 1, !.pc = AfterItem(run), !.last = Null]
       IN IF it.url \notin run.previously_seen THEN run' = skip
          ELSE IF row = Null THEN run' = skip
          ELSE IF ~Truthy(row[1].last_title)
          THEN run' = [run EXCEPT !.pc = "backfill", !.last = Null]
          ELSE IF it.title # row[1].last_title[1]
          THEN \E failing \in SUBSET (1..Len(run.webhooks)) :
                 LET message == UpdatedMessage(it.title)
                     sent == send_discord(run.webhooks, message, it.url, failing)
                 IN run' = [run EXCEPT
                      !.events = Append(@, [message |-> message, url |-> it.url]),
                      !.last = Some(sent),
                      !.failed = @ \/ \E k \in 1..Len(sent.deliveries) :
                                        ~sent.deliveries[k].ok,
                      !.pc = "set_title"]
          ELSE run' = skip
    /\ UNCHANGED <<schema, store, clock, runs>>

\* A variant of SetTitle that counts a backfill as a title update.
SetTitle_counts_backfill ==
    /\ run.pc \in {"backfill", "set_title"}
    /\ clock' = Now
    /\ store' = set_title(store, run.items[run.i].url, run.items[run.i].title, Now)
    /\ run' = [run EXCEPT
                 !.updated_count = @ + 1,
                 !.i = @ + 1,
                 !.pc = AfterItem(run),
                 !.last = Null]
    /\ UNCHANGED <<schema, runs>>

\* Lines 191 and 194-195: set_title, counted when it follows a notification.
SetTitle ==
    /\ run.pc \in {"backfill", "set_title"}
    /\ clock' = Now
    /\ store' = set_title(store, run.items[run.i].url, run.items[run.i].title, Now)
    /\ run' = [run EXCEPT
                 !.updated_count = IF run.pc = "set_title" THEN @ + 1 ELSE @,
                 !.i = @ + 1,
                 !.pc = AfterItem(run),
                 !.last = Null]
    /\ UNCHANGED <<schema, runs>>

\* Lines 197-201: the summary line and the return.
Summary ==
    /\ run.pc = "summary"
    /\ run' = [run EXCEPT
                 !.summary = Some([new |-> Len(run.new_items),
                                   updated |-> run.updated_count]),
                 !.ret = 0,
                 !.last = Null,
                 !.pc = "done"]
    /\ UNCHANGED <<schema, store, clock, runs>>

Next ==
    \/ Start
    \/ FetchFails
    \/ Fetch
    \/ NotifyNew
    \/ MarkSeen
    \/ CheckTitle
    \/ SetTitle
    \/ Summary

Spec == Init /\ [][Next]_vars

(***************************************************************************)
(* Vocabulary of the properties.                                           *)
(***************************************************************************)
\* The run has returned after a successful fetch.
Completed == run.pc = "done" /\ run.fetched

\* The row of a URL known when the run started, as the run first read it.
Before(u) == Upgraded(run.store0[u])

KnownAtStart(u) == u \in DOMAIN run.store0

IsKind(e, tag) == SubSeq(e.message, 1, Len(tag)) = tag

\* The notification events of the run about a URL, of one kind.
EventsFor(u, tag) ==
    {k \in 1..Len(run.events) : run.events[k].url = u /\ IsKind(run.events[k], tag)}

EventsAbout(u) == {k \in 1..Len(run.events) : run.events[k].url = u}

UpdatedEvents == {k \in 1..Len(run.events) : IsKind(run.events[k], UPDATED_TAG)}

\* C1. Idempotence: when a run has completed after a successful fetch and
\* the next run fetches the same item list, the second run emits no
\* notification event at all.
Idempotence ==
    (Completed /\ run.same) => run.events = <<>>

\* A second run over the same two items, after a first run that inserted a
\* row and wrote a title.
IdempotenceWitness ==
    /\ Completed /\ run.same /\ runs = 2
    /\ Len(run.items) = 2
    /\ \E u \in DOMAIN store : store[u].first_seen_utc > 0
    /\ \E v \in DOMAIN store :
         /\ store[v].first_seen_utc = 0
         /\ store[v].last_changed_utc # Null
         /\ Truthy(store[v].last_title)

\* C2. A failed fetch is all-or-nothing: no notification, the rows of the
\* store are those it held before the run, and the run returns non-zero.
FetchFailureAllOrNothing ==
    (run.pc = "done" /\ ~run.fetched) =>
        /\ run.events = <<>>
        /\ run.last = Null
        /\ Rows(store) = Rows(run.store0)
        /\ run.summary = Null
        /\ run.ret # 0

\* A failed fetch with destinations configured, over a table of the older
\* schema that holds a row.
FetchFailureWitness ==
    /\ run.pc = "done" /\ ~run.fetched
    /\ run.webhooks # <<>>
    /\ \E u \in DOMAIN run.store0 : "last_title" \notin DOMAIN run.store0[u]

\* C3 (as claimed). Every known URL whose stored title is a non-null string
\* different from the fetched one gets exactly one "updated" notification
\* tagged with the fetched title, and its row then holds the fetched title
\* and a change timestamp taken during the run.
TitleChangeDetected ==
    Completed =>
      \A k \in 1..Len(run.items) :
        LET it == run.items[k]
            u == it.url
        IN (/\ KnownAtStart(u)
            /\ Before(u).last_title # Null
            /\ Before(u).last_title[1] # it.title)
           => /\ Cardinality(EventsFor(u, UPDATED_TAG)) = 1
              /\ \A e \in EventsFor(u, UPDATED_TAG) :
                   run.events[e].message = UpdatedMessage(it.title)
              /\ store[u].last_title = Some(it.title)
              /\ store[u].last_changed_utc # Null
              /\ store[u].last_changed_utc[1] > run.start

\* C4. Backfill is silent: a known URL whose stored title is NULL gets the
\* fetched title, no notification event names it, and the count of title
\* updates reported counts the "updated" notifications only.
BackfillSilent ==
    Completed =>
      /\ run.summary # Null
      /\ run.summary[1].updated = Cardinality(UpdatedEvents)
      /\ \A k \in 1..Len(run.items) :
           LET it == run.items[k]
               u == it.url
           IN (KnownAtStart(u) /\ Before(u).last_title = Null)
              => /\ store[u].last_title = Some(it.title)
                 /\ EventsAbout(u) = {}

\* A completed run that backfilled a NULL title with a non-empty one while
\* destinations were configured.
BackfillWitness ==
    /\ Completed
    /\ run.webhooks # <<>>
    /\ \E k \in 1..Len(run.items) :
         /\ KnownAtStart(run.items[k].url)
         /\ Before(run.items[k].url).last_title = Null
         /\ run.items[k].title # <<>>
         /\ store[run.items[k].url].last_title = Some(run.items[k].title)

\* C5 (as claimed). A known URL whose stored title is non-null and equal to
\* the fetched one, the empty title included, gets no notification and
\* keeps its row as it was.
EqualTitlesNoAction ==
    Completed =>
      \A k \in 1..Len(run.items) :
        LET it == run.items[k]
            u == it.url
        IN (KnownAtStart(u) /\ Before(u).last_title = Some(it.title))
           => /\ EventsAbout(u) = {}
              /\ store[u] = Before(u)

\* C6. first_seen_utc is immutable: no step removes a row or changes the
\* first_seen_utc of a row the store holds.
FirstSeenImmutable ==
    [][\A u \in DOMAIN store :
          /\ u \in DOMAIN store'
          /\ store'[u].first_seen_utc = store[u].first_seen_utc]_vars

\* A row inserted by one run whose title a later run has changed.
FirstSeenWitness ==
    /\ runs = 2
    /\ \E u \in DOMAIN store :
         /\ store[u].first_seen_utc > 0
         /\ store[u].last_changed_utc # Null
         /\ store[u].last_changed_utc[1] > store[u].first_seen_utc

\* An entry of the destination list that names an endpoint, its endpoint and
\* its prefix (a bare endpoint has the empty prefix).
HasEndpoint(w) == w.kind = "str" \/ (w.kind = "dict" /\ Truthy(w.url))
Destinations(webhooks) == SelectSeq(webhooks, HasEndpoint)
PrefixOf(w) == IF w.kind = "dict" /\ w.prefix # Null THEN w.prefix[1] ELSE <<>>

\* C7. Fan-out isolation: when deliveries of an event fail, every
\* destination of the list still has its attempt, in order; and a run in
\* which deliveries failed still notifies every new item and every title
\* change it detects (a stored non-empty title that differs from the fetched
\* one), still records every fetched title, and returns 0.
FanOutIsolation ==
    /\ (run.last # Null /\ \E k \in 1..Len(run.last[1].deliveries) :
                              ~run.last[1].deliveries[k].ok)
       => LET d == run.last[1].deliveries
              dests == Destinations(run.webhooks)
          IN /\ Len(d) = Len(dests)
             /\ \A k \in 1..Len(d) : d[k].endpoint = dests[k].url[1]
    /\ run.failed => run.pc # "crashed"
    /\ (run.failed /\ run.pc = "done") =>
         /\ run.ret = 0
         /\ \A k \in 1..Len(run.items) :
              LET it == run.items[k]
                  u == it.url
              IN /\ u \in DOMAIN store
                 /\ store[u].last_title = Some(it.title)
                 /\ ~KnownAtStart(u) => EventsFor(u, NEW_TAG) # {}
                 /\ (/\ KnownAtStart(u)
                     /\ Truthy(Before(u).last_title)
                     /\ Before(u).last_title[1] # it.title)
                    => EventsFor(u, UPDATED_TAG) # {}

\* The second event of a run: its first delivery fails, its second is
\* attempted and succeeds.
FanOutWitness ==
    /\ run.last # Null
    /\ Len(run.events) = 2
    /\ Len(run.last[1].deliveries) = 2
    /\ ~run.last[1].deliveries[1].ok
    /\ run.last[1].deliveries[2].ok

\* C8. New-item insertion: every fetched URL absent from the store at the
\* start of a completed run has one "new" notification, tagged with its
\* title, and a row with that title, a NULL change timestamp and the
\* first_seen_utc of every other row the run inserted.
NewItemsInserted ==
    Completed =>
      \A k \in 1..Len(run.items) :
        LET it == run.items[k]
            u == it.url
        IN ~KnownAtStart(u) =>
             /\ Cardinality(EventsFor(u, NEW_TAG)) = 1
             /\ \A e \in EventsAbout(u) : run.events[e].message = NewMessage(it.title)
             /\ u \in DOMAIN store
             /\ store[u] = Row(store[u].first_seen_utc, Some(it.title), Null)
             /\ store[u].first_seen_utc > run.start
             /\ \A j \in 1..Len(run.items) :
                  ~KnownAtStart(run.items[j].url) =>
                     store[run.items[j].url].first_seen_utc = store[u].first_seen_utc

\* A completed run that inserted two rows with different titles.
NewItemsWitness ==
    /\ Completed
    /\ Len(run.new_items) = 2
    /\ run.new_items[1].title # run.new_items[2].title
    /\ \A k \in 1..2 : run.new_items[k].url \in DOMAIN store

\* C9 (as claimed). A run that has ended returns non-zero only when the
\* fetch step erred, whatever the configuration source held.
ExitStatusFetchOnly ==
    run.pc \in {"done", "crashed"} =>
        (run.ret # 0 <=> (run.pc = "done" /\ ~run.fetched))

\* C10. Per-destination delivery: an event sent to a non-empty list is
\* attempted once at each destination, in list order, with the content
\* prefix + message + newline + url, and nothing is printed instead.
PerDestinationDelivery ==
    (run.last # Null /\ run.webhooks # <<>>) =>
        LET e == run.events[Len(run.events)]
            d == run.last[1].deliveries
            dests == Destinations(run.webhooks)
        IN /\ run.last[1].printed = Null
           /\ Len(d) = Len(dests)
           /\ \A k \in 1..Len(d) :
                /\ d[k].endpoint = dests[k].url[1]
                /\ d[k].content = PrefixOf(dests[k]) \o e.message \o NL \o e.url

\* An event sent to a bare endpoint and then to a structured destination
\* with a prefix.
PerDestinationWitness ==
    /\ run.last # Null
    /\ run.webhooks = <<StrEntry(H2), DictEntry(Some(H1), Some(AT))>>
    /\ Len(run.last[1].deliveries) = 2
    /\ run.last[1].deliveries[1].content # run.last[1].deliveries[2].content

(***************************************************************************)
(* fetch_links: the listing page as its anchors, in document order.  An    *)
(* href and a text are sequences of tokens: SL is "/", QM is "?", SP is a  *)
(* run of whitespace, ORIGIN is "https://www.maplesea.com", and any other  *)
(* token is a maximal run of characters free of those.  The hrefs below    *)
(* carry no "." or ".." segment and no fragment.                           *)
(***************************************************************************)
SL == "/"
QM == "?"
SP == " "
ORIGIN == "https://www.maplesea.com"

MaxAnchors == 2

Hrefs ==
    { <<SL, "updates", SL, "1">>,
      <<ORIGIN, SL, "updates", SL, "1">>,
      <<SP, SL, "updates", SL, "2", SP>>,
      <<SL, "UPDATES">>,
      <<SL, "news">>,
      <<SL, "news", QM, "next=", SL, "updates">> }

Texts == { <<>>, <<"A">>, <<SP, "B", SP, SP, "C", SP>> }

\* An anchor; href is Null when the element carries no href attribute.
Anchors == [href : {Null} \cup {Some(h) : h \in Hrefs}, text : Texts]

Pages == UNION { [1..n -> Anchors] : n \in 0..MaxAnchors }

\* str.strip()
RECURSIVE Strip(_)
Strip(t) ==
    IF t = <<>> THEN t
    ELSE IF Head(t) = SP THEN Strip(Tail(t))
    ELSE IF t[Len(t)] = SP THEN Strip(SubSeq(t, 1, Len(t) - 1))
    ELSE t

\* " ".join(text.split()): the runs of whitespace inside become one space,
\* those at the edges go.
RECURSIVE Squeeze(_)
Squeeze(t) ==
    IF Len(t) < 2 THEN t
    ELSE IF t[1] = SP /\ t[2] = SP THEN Squeeze(Tail(t))
    ELSE <<t[1]>> \o Squeeze(Tail(t))

Collapse(t) == Squeeze(Strip(t))

Lower(tok) == IF tok = "UPDATES" THEN "updates" ELSE tok

\* ALLOWED_HREF.search(href): "/updates" followed by "/" or the end of the
\* string, anywhere in the string, whatever the case.
ALLOWED_HREF(href) ==
    \E k \in 1..(Len(href) - 1) :
        /\ href[k] = SL
        /\ Lower(href[k + 1]) = "updates"
        /\ (k + 1 = Len(href) \/ href[k + 2] = SL)

\* urljoin(BASE_URL, href) with BASE_URL = ORIGIN/updates: an absolute URL
\* stays, a path replaces the path, a relative reference replaces the last
\* segment of the base path.
urljoin(href) ==
    IF href = <<>> THEN <<ORIGIN, SL, "updates">>
    ELSE IF Head(href) = ORIGIN THEN href
    ELSE IF Head(href) = SL THEN <<ORIGIN>> \o href
    ELSE <<ORIGIN, SL>> \o href

\* Lines 114-121: the (url, text) pairs of the anchors that pass the filter.
RECURSIVE Links(_)
Links(anchors) ==
    IF anchors = <<>> THEN <<>>
    ELSE LET a == Head(anchors)
             href == Strip(a.href[1])
         IN (IF a.href # Null /\ ALLOWED_HREF(href)
               THEN <<Item(urljoin(href), Collapse(a.text))>>
               ELSE <<>>) \o Links(Tail(anchors))

\* Lines 124-129: the first pair of every URL.
RECURSIVE Uniq(_, _)
Uniq(links, seen_urls) ==
    IF links = <<>> THEN <<>>
    ELSE IF Head(links).url \in seen_urls THEN Uniq(Tail(links), seen_urls)
    ELSE <<Head(links)>> \o Uniq(Tail(links), seen_urls \cup {Head(links).url})

Reverse(seq) == [k \in 1..Len(seq) |-> seq[Len(seq) + 1 - k]]

\* A variant of fetch_links in which a later anchor overwrites the pair of
\* an earlier one with the same URL.
fetch_links_keep_last(anchors) == Reverse(Uniq(Reverse(Links(anchors)), {}))

fetch_links(anchors) == Uniq(Links(anchors), {})

InitFetch ==
    /\ schema = "none"
    /\ store = <<>>
    /\ clock = 0
    /\ runs = 0
    /\ \E page \in Pages : run = [pc |-> "page", anchors |-> page, items |-> <<>>]

\* Lines 112-130: the response is parsed.
ParsePage ==
    /\ run.pc = "page"
    /\ run' = [run EXCEPT !.pc = "parsed", !.items = fetch_links(run.anchors)]
    /\ UNCHANGED <<schema, store, clock, runs>>

NextFetch == ParsePage

SpecFetch == InitFetch /\ [][NextFetch]_vars

\* The anchors of the page that pass the filter, and the URL of an anchor.
Passing ==
    {k \in 1..Len(run.anchors) :
        /\ run.anchors[k].href # Null
        /\ ALLOWED_HREF(Strip(run.anchors[k].href[1]))}

UrlOf(k) == urljoin(Strip(run.anchors[k].href[1]))

\* The first passing anchor with the URL of the i-th item.
FirstAnchor(i) ==
    CHOOSE k \in Passing :
        /\ UrlOf(k) = run.items[i].url
        /\ \A j \in Passing : UrlOf(j) = run.items[i].url => k <= j

\* C11. De-duplication: the list returned holds every URL of a passing
\* anchor once, with the (whitespace-normalised) text of the first anchor
\* that has the URL, in the document order of those first anchors.
DedupFirstOccurrence ==
    run.pc = "parsed" =>
      /\ {run.items[i].url : i \in 1..Len(run.items)} = {UrlOf(k) : k \in Passing}
      /\ \A i, j \in 1..Len(run.items) :
           i # j => run.items[i].url # run.items[j].url
      /\ \A i \in 1..Len(run.items) :
           run.items[i].title = Collapse(run.anchors[FirstAnchor(i)].text)
      /\ \A i, j \in 1..Len(run.items) :
           i < j => FirstAnchor(i) < FirstAnchor(j)

\* Two anchors, one with a path and one with an absolute URL, that resolve
\* to one URL and carry different texts: one item, with the first text.
DedupWitness ==
    /\ run.pc = "parsed"
    /\ Len(run.anchors) = 2
    /\ run.anchors[1].href # Null /\ run.anchors[2].href # Null
    /\ run.anchors[1].href # run.anchors[2].href
    /\ Collapse(run.anchors[1].text) # Collapse(run.anchors[2].text)
    /\ Len(run.items) = 1
    /\ run.items[1].title = Collapse(run.anchors[1].text)

\* The path of a resolved URL, and whether it has a segment "updates".
PathOf(url) ==
    LET rest == Tail(url)
        stops == {k \in 1..Len(rest) : rest[k] = QM}
        end == IF stops = {} THEN Len(rest)
               ELSE (CHOOSE k \in stops : \A j \in stops : k <= j) - 1
    IN SubSeq(rest, 1, end)

HasUpdatesSegment(path) ==
    \E k \in 1..(Len(path) - 1) : path[k] = SL /\ Lower(path[k + 1]) = "updates"

\* C12 (as claimed). Filtering: no anchor whose resolved URL has a path
\* without an "updates" segment is among the items returned.
FilterByResolvedPath ==
    run.pc = "parsed" =>
      \A k \in 1..Len(run.anchors) :
        (/\ run.anchors[k].href # Null
         /\ ~HasUpdatesSegment(PathOf(UrlOf(k))))
        => \A i \in 1..Len(run.items) : run.items[i].url # UrlOf(k)

\* The position of a URL in the fetched list.
PositionOf(u) == CHOOSE k \in 1..Len(run.items) : run.items[k].url = u

IsNewEvent(e) == IsKind(e, NEW_TAG)
IsUpdatedEvent(e) == IsKind(e, UPDATED_TAG)

\* C13. Partition by the URLs known when the run starts: the new items are
\* the fetched items whose URL the store did not hold, in fetch order; a
\* URL has at most one event in a run, "new" only if it was unknown and
\* "updated" only if it was known; the events of each kind follow the fetch
\* order, and a completed run has announced every new item.
PartitionByKnown ==
    (run.pc \notin {"idle", "fetch", "crashed"} /\ run.fetched) =>
      LET Unknown(it) == ~KnownAtStart(it.url)
          news == SelectSeq(run.events, IsNewEvent)
          upds == SelectSeq(run.events, IsUpdatedEvent)
      IN /\ run.new_items = SelectSeq(run.items, Unknown)
         /\ \A u \in URLs : Cardinality(EventsAbout(u)) <= 1
         /\ \A k \in 1..Len(run.events) :
              /\ run.events[k].url \in {run.items[j].url : j \in 1..Len(run.items)}
              /\ IsNewEvent(run.events[k]) <=> ~KnownAtStart(run.events[k].url)
              /\ IsUpdatedEvent(run.events[k]) <=> KnownAtStart(run.events[k].url)
         /\ Len(news) <= Len(run.new_items)
         /\ \A k \in 1..Len(news) : news[k].url = run.new_items[k].url
         /\ \A j, k \in 1..Len(upds) :
              j < k => PositionOf(upds[j].url) < PositionOf(upds[k].url)
         /\ run.pc = "done" => Len(news) = Len(run.new_items)

\* A completed run over a known URL with a changed title followed by an
\* unknown URL: one event of each kind.
PartitionWitness ==
    /\ Completed
    /\ Len(run.items) = 2
    /\ KnownAtStart(run.items[1].url)
    /\ ~KnownAtStart(run.items[2].url)
    /\ Len(run.events) = 2
    /\ IsNewEvent(run.events[1]) /\ run.events[1].url = run.items[2].url
    /\ IsUpdatedEvent(run.events[2]) /\ run.events[2].url = run.items[1].url

(***************************************************************************)
(* Runs that an external kill may end at any point.                        *)
(***************************************************************************)

\* The process is killed between two steps of main; the store keeps what
\* the statements executed so far have committed.
Kill ==
    /\ run.pc \in {"fetch", "notify_new", "mark_seen", "titles",
                   "backfill", "set_title", "summary"}
    /\ run' = [run EXCEPT !.pc = "killed", !.last = Null]
    /\ UNCHANGED <<schema, store, clock, runs>>

NextKill == Next \/ Kill

SpecKill == Init /\ [][NextKill]_vars

\* C14. Notify-before-persist: at every point of a run, killed or not, a
\* URL the run has added to the store has had its "new" notification
\* emitted, and a stored title the run has replaced by a different one has
\* had its "updated" notification emitted.
NotifyBeforePersist ==
    run.pc # "idle" =>
      /\ \A u \in DOMAIN store :
           ~KnownAtStart(u) => EventsFor(u, NEW_TAG) # {}
      /\ \A u \in DOMAIN store :
           (/\ KnownAtStart(u)
            /\ Before(u).last_title # Null
            /\ store[u].last_title # Before(u).last_title)
           => EventsFor(u, UPDATED_TAG) # {}

(***************************************************************************)
(* Two processes running main() against one database file.  Each          *)
(* statement that touches the database commits on its own (lines 94 and   *)
(* 105), so the processes interleave between the statements of main.      *)
(* send_discord and the prints touch neither the database nor the         *)
(* variables the later statements read and are folded into the            *)
(* neighbouring steps; load_config is left to Spec.                       *)
(***************************************************************************)
Procs == {1, 2}

IdleProc ==
    [ pc |-> "idle", previously_seen |-> {},
      items |-> <<>>, new_items |-> <<>>, i |-> 1 ]

\* The databases the two processes may find: none yet, or a current table
\* whose rows carry a title.
RaceStores ==
    { st \in InitStores :
        /\ st[1] # "old"
        /\ \A u \in DOMAIN st[2] : st[2][u].last_title = Some(<<"A">>) }

\* run.first remembers the row each URL got from the first insert.
InitRace ==
    /\ \E st \in RaceStores : schema = st[1] /\ store = st[2]
    /\ clock = 0
    /\ runs = 0
    /\ run = [ proc |-> [p \in Procs |-> IdleProc],
               first |-> [u \in URLs |-> Null] ]

Step(p, rec) == [run EXCEPT !.proc[p] = rec]

\* Lines 164-165: init_db, get_seen.
RaceStart(p) ==
    /\ run.proc[p].pc \in {"idle", "done"}
    /\ runs < MaxRuns
    /\ runs' = runs + 1
    /\ schema' = "current"
    /\ store' = init_db(store)
    /\ run' = Step(p, [IdleProc EXCEPT !.pc = "fetch",
                                       !.previously_seen = get_seen(store')])
    /\ UNCHANGED clock

\* Lines 167-171: fetch_links raises.
RaceFetchFails(p) ==
    /\ run.proc[p].pc = "fetch"
    /\ run' = Step(p, [run.proc[p] EXCEPT !.pc = "done"])
    /\ UNCHANGED <<schema, store, clock, runs>>

\* Lines 167-177: the fetch, the new items and their notifications.
RaceFetch(p) ==
    /\ run.proc[p].pc = "fetch"
    /\ \E items \in FetchResults :
         LET Unknown(it) == it.url \notin run.proc[p].previously_seen
             new_items == SelectSeq(items, Unknown)
         IN run' = Step(p, [run.proc[p] EXCEPT
                      !.items = items,
                      !.new_items = new_items,
                      !.pc = IF new_items # <<>> THEN "mark_seen"
                             ELSE IF items # <<>> THEN "titles" ELSE "done"])
    /\ UNCHANGED <<schema, store, clock, runs>>

\* Line 178: the batched insert, one transaction.
RaceMarkSeen(p) ==
    /\ run.proc[p].pc = "mark_seen"
    /\ clock' = Now
    /\ store' = mark_seen(store, run.proc[p].new_items, Now)
    /\ run' = [run EXCEPT
                 !.proc[p].pc = "titles",
                 !.first = [u \in URLs |->
                              IF u \in DOMAIN store' /\ u \notin DOMAIN store
                              THEN Some(store'[u]) ELSE @[u]]]
    /\ UNCHANGED <<schema, runs>>

RaceAfterItem(r) == IF r.i = Len(r.items) THEN "done" ELSE "titles"

\* Lines 182-193: one turn of the title loop, up to the write.
RaceCheckTitle(p) ==
    /\ run.proc[p].pc = "titles"
    /\ LET r == run.proc[p]
           it == r.items[r.i]
           row == get_row(store, it.url)
           skip == [r EXCEPT !.i = @ + 1, !.pc = RaceAfterItem(r)]
       IN IF it.url \notin r.previously_seen THEN run' = Step(p, skip)
          ELSE IF row = Null THEN run' = Step(p, skip)
          ELSE IF ~Truthy(row[1].last_title) \/ it.title # row[1].last_title[1]
          THEN run' = Step(p, [r EXCEPT !.pc = "set_title"])
          ELSE run' = Step(p, skip)
    /\ UNCHANGED <<schema, store, clock, runs>>

\* Lines 191 and 194: set_title.
RaceSetTitle(p) ==
    /\ run.proc[p].pc = "set_title"
    /\ LET r == run.proc[p]
           it == r.items[r.i]
       IN /\ store' = set_title(store, it.url, it.title, Now)
          /\ run' = Step(p, [r EXCEPT !.i = @ + 1, !.pc = RaceAfterItem(r)])
    /\ clock' = Now
    /\ UNCHANGED <<schema, runs>>

NextRace ==
    \/ \E p \in Procs : RaceStart(p)
    \/ \E p \in Procs : RaceFetchFails(p)
    \/ \E p \in Procs : RaceFetch(p)
    \/ \E p \in Procs : RaceMarkSeen(p)
    \/ \E p \in Procs : RaceCheckTitle(p)
    \/ \E p \in Procs : RaceSetTitle(p)

SpecRace == InitRace /\ [][NextRace]_vars

\* C15. Ignore-on-conflict insert under races: the insert of a process
\* leaves every row that exists entirely unchanged; under every
\* interleaving of the processes a URL that was inserted has a row that
\* keeps the first_seen_utc of the first insert, and its title too as long
\* as no title write has stamped the row.
IgnoreOnConflict ==
    /\ [][\A p \in Procs :
            (run.proc[p].pc = "mark_seen" /\ run'.proc[p].pc # "mark_seen")
            => \A u \in DOMAIN store :
                 u \in DOMAIN store' /\ store'[u] = store[u]]_vars
    /\ [](\A u \in URLs :
            run.first[u] # Null =>
              /\ u \in DOMAIN store
              /\ store[u].first_seen_utc = run.first[u][1].first_seen_utc
              /\ store[u].last_changed_utc = Null => store[u] = run.first[u][1])

\* Both processes took a URL for new with different titles and both have
\* inserted; the row carries the title and the time of the second process,
\* whose insert came first.
IgnoreOnConflictWitness ==
    \E u \in URLs :
      LET r1 == run.proc[1]
          r2 == run.proc[2]
          In(r) == {k \in 1..Len(r.new_items) : r.new_items[k].url = u}
      IN /\ r1.pc \in {"titles", "done"} /\ r2.pc \in {"titles", "done"}
         /\ In(r1) # {} /\ In(r2) # {}
         /\ \A j \in In(r1), k \in In(r2) :
              r1.new_items[j].title # r2.new_items[k].title
         /\ u \in DOMAIN store
         /\ \A k \in In(r2) : store[u].last_title = Some(r2.new_items[k].title)
         /\ store[u] = run.first[u][1]
         /\ clock > store[u].first_seen_utc

\* The URLs of the list the run has fetched.
FetchedUrls == {run.items[k].url : k \in 1..Len(run.items)}

\* C16. Append/update-only store: no step removes a stored URL; at every
\* point of a run the row of a URL that was stored when the run started and
\* that the fetched list does not hold is as the run found it; and a URL
\* that was stored when the run started gets no "new" notification.
AppendUpdateOnly ==
    /\ [][DOMAIN store \subseteq DOMAIN store']_vars
    /\ [](\A u \in DOMAIN run.store0 :
            /\ u \in DOMAIN store
            /\ (~run.fetched \/ u \notin FetchedUrls)
               => Upgraded(store[u]) = Before(u)
            /\ EventsFor(u, NEW_TAG) = {})

\* The second run has completed and has written to the store, and a URL
\* stored before it is absent from its fetched list.
AppendUpdateOnlyWitness ==
    /\ Completed
    /\ runs = 2
    /\ clock > run.start
    /\ \E u \in DOMAIN run.store0 :
         /\ u \notin FetchedUrls
         /\ Before(u).last_title # Null
         /\ store[u] = Before(u)

\* C17. The store converges to the fetch: when a run has completed after a
\* successful fetch, every fetched URL has a row and the row's last_title
\* is the fetched title of the URL.
StoreConverges ==
    Completed =>
      \A k \in 1..Len(run.items) :
        /\ run.items[k].url \in DOMAIN store
        /\ store[run.items[k].url].last_title = Some(run.items[k].title)

\* A completed run that fetched two items, inserted one and wrote the
\* title of the other.
StoreConvergesWitness ==
    /\ Completed
    /\ Len(run.items) = 2
    /\ \E j, k \in 1..2 :
         /\ ~KnownAtStart(run.items[j].url)
         /\ KnownAtStart(run.items[k].url)
         /\ Before(run.items[k].url).last_title # Some(run.items[k].title)
         /\ store[run.items[k].url].last_title = Some(run.items[k].title)

\* The fetched title of a fetched URL.
FetchedTitle(u) == run.items[PositionOf(u)].title

\* C18. Persistence does not depend on delivery: when a run has completed
\* after a successful fetch, the stored URLs and titles, the new and
\* updated counts and the exit status are determined by the store at the
\* start of the run and the fetched list alone, whatever the destination
\* list and whichever deliveries failed; so two runs that agree on the
\* former agree on the latter.
PersistenceIgnoresDelivery ==
    Completed =>
      LET Unknown(it) == ~KnownAtStart(it.url)
          Changed(it) == /\ KnownAtStart(it.url)
                         /\ Truthy(Before(it.url).last_title)
                         /\ Before(it.url).last_title # Some(it.title)
      IN /\ DOMAIN store = DOMAIN run.store0 \cup FetchedUrls
         /\ \A u \in DOMAIN store :
              store[u].last_title = IF u \in FetchedUrls
                                    THEN Some(FetchedTitle(u))
                                    ELSE Before(u).last_title
         /\ run.summary = Some([new |-> Len(SelectSeq(run.items, Unknown)),
                                updated |-> Len(SelectSeq(run.items, Changed))])
         /\ run.ret = 0

\* A completed run with two destinations in which a delivery failed, and
\* which has inserted a new URL and counted a title update.
PersistenceIgnoresDeliveryWitness ==
    /\ Completed
    /\ Len(run.webhooks) = 2
    /\ run.failed
    /\ \E u \in DOMAIN store : ~KnownAtStart(u)
    /\ run.updated_count = 1

\* A row the store held before the first run: the runs stamp their inserts
\* with later clock readings.
Initially(u) == u \in DOMAIN store /\ store[u].first_seen_utc = 0

AtRest == run.pc \in {"idle", "done", "crashed"}

\* C19. At most one "new" notification per URL over sequential runs that
\* each run to their end: a URL never has more than one "new" event in
\* total and has none if the store held it initially; between runs the
\* URLs notified are exactly those a run has inserted; and once a run with
\* a successful fetch holding the URL has completed, the event has been
\* emitted, so it is that first run that emits it.
NewOncePerUrl ==
    \A u \in URLs :
      /\ run.news[u] <= 1
      /\ Initially(u) => run.news[u] = 0
      /\ AtRest => (run.news[u] = 1 <=> (u \in DOMAIN store /\ ~Initially(u)))
      /\ (Completed /\ u \in FetchedUrls /\ ~Initially(u)) => run.news[u] = 1

\* The second run has completed with a fetch that holds a URL which the
\* first run announced, and has not announced it again.
NewOncePerUrlWitness ==
    /\ Completed
    /\ runs = 2
    /\ \E u \in FetchedUrls :
         /\ run.news[u] = 1
         /\ KnownAtStart(u)
         /\ EventsFor(u, NEW_TAG) = {}

====
